---- MODULE Spec2Model ----
(***************************************************************************)
(* The recruitment supervisor graph of src/agents/supervisor_agent.py:     *)
(* one turn of the conversation is one run of the graph                    *)
(*     supervisor_agent -> route_logic -> (invoke_intent | invoke_jd |     *)
(*                                         invoke_questions | END).        *)
(* `state` is the SupervisorState dictionary: a function whose domain is   *)
(* the set of keys written so far.  Every language-model call is an        *)
(* external oracle whose answer is only known to conform to the pydantic   *)
(* schema it was given, so it is a choice over the schema's values, or an  *)
(* exception.                                                              *)
(***************************************************************************)
EXTENDS Integers, Sequences, FiniteSets, TLC

VARIABLES
    state,       \* the SupervisorState dict (key -> value, absent keys absent)
    pc,          \* the node the graph run is at; "idle" between turns
    outcome,     \* how the latest turn ended: "none", "running", "ok", "failed"
    nodes_run,   \* the nodes executed so far in the current turn, in order
    calls,       \* the oracle invocations of the current turn, in order
    analysis,    \* the structured output of the latest oracle call of the turn
    turn_start,  \* the SupervisorState as it was when the current turn began
    turns,       \* number of turns started
    routed       \* every (current_node, node_decision, next_node) the router chose

vars == <<state, pc, outcome, nodes_run, calls, analysis, turn_start, turns, routed>>

----------------------------------------------------------------------------
(* Bounds of the model *)

MaxTurns == 2

MaxQuestions == 11

(* Program constants *)

TenItems == 10

----------------------------------------------------------------------------
(* Values *)

Null == "None"

END == "END"

UserInputs == {"no", "add Python"}

CollectedFull == "company_name: Acme; role: backend; skills: Python; experience: 3 years; mode_of_work: remote; location: Berlin"

CollectedInfos == {"role: backend", "role: backend; location: Berlin", CollectedFull}

JobDescriptions == {"JD draft", "JD revised"}

Decisions == {"incomplete", "complete"}

HandlerNodes == {"invoke_intent", "invoke_jd", "invoke_questions"}

(* Follow-up questions the prompts dictate to the oracles. *)
AskMore == "Great, I have the core details. Would you like to add any other information? (Yes/No)"

AskChanges == "Here is a draft of the job description. Do you want to make any changes? (Yes/No)"

AskShare == "Understood. Can you please share the information to be updated?"

AskSpecific == "Understood. Can you please share the specific changes you'd like to make?"

AskFurther == "I've updated the questions based on your feedback. Do you want to make any further changes? (Yes/No)"

FollowUps == {AskShare, AskSpecific, AskFurther}

HumanMessage(text) == [type |-> "human", content |-> <<text>>]

AIMessage(content) == [type |-> "ai", content |-> content]

(* The keys of SupervisorState. *)
SupervisorState ==
    {"messages", "collected_information", "job_description", "questions",
     "next_node_to_invoke", "prev_question", "current_node", "node_decision"}

(* state.get(key, default) *)
Get(s, key, default) == IF key \in DOMAIN s THEN s[key] ELSE default

(* add_messages overwriting the channel instead of appending to it. *)
add_messages_replace(left, right) == right

(* add_messages: the reducer of the messages channel appends the update. *)
add_messages(left, right) == left \o right

(* The graph merges a node's returned dict into the state: messages goes   *)
(* through its reducer, every other key is overwritten.                    *)
Merge(s, update) ==
    [k \in (DOMAIN s) \cup (DOMAIN update) |->
        IF k \notin DOMAIN update THEN s[k]
        ELSE IF k = "messages" THEN add_messages(Get(s, "messages", <<>>), update[k])
        ELSE update[k]]

(* str.lower() and the `in` test on the follow-up questions the oracle may *)
(* return: the phrases a question contains once lower-cased.               *)
LowerPhrases(q) ==
    IF q = AskShare THEN {"please share the information"}
    ELSE IF q = AskFurther THEN {"further changes"}
    ELSE {}

----------------------------------------------------------------------------
(* Structured output models: the values an oracle answer can take. *)

RouteDecision == [next_node : HandlerNodes \cup {END}]

IntentAnalysis ==
    [collected_information : CollectedInfos,
     next_question_to_ask : {Null, AskMore},
     node_decision : Decisions,
     current_node : {"invoke_intent"}]

JDAnalysis ==
    [job_description : JobDescriptions,
     node_decision : Decisions,
     current_node : {"invoke_jd"},
     next_question_to_ask : {Null, AskChanges}]

(* questions: List[str] carries no length constraint in the schema. *)
QuestionLists == {[i \in 1..n |-> "Q"] : n \in {TenItems - 1, TenItems, MaxQuestions}}

QuestionsAnalysis ==
    [questions : QuestionLists,
     current_node : {"invoke_questions"},
     node_decision : Decisions,
     next_question_to_ask : {Null} \cup FollowUps]

NoAnalysis == [none |-> TRUE]

(* The structured LLMs: any schema-conforming answer, whatever the prompt. *)
router_llm(prompt) == RouteDecision

intent_analyzer_llm(prompt) == IntentAnalysis

jd_llm(prompt) == JDAnalysis

question_llm(prompt) == QuestionsAnalysis

----------------------------------------------------------------------------
(* Helper: the content of the most recent HumanMessage, "" when none. *)
RECURSIVE LatestHuman(_, _)
LatestHuman(msgs, i) ==
    IF i = 0 THEN ""
    ELSE IF msgs[i].type = "human" THEN msgs[i].content[1]
    ELSE LatestHuman(msgs, i - 1)

(* _latest_user_text taking the last message whatever its type. *)
_latest_user_text_any(s) ==
    IF Len(s["messages"]) = 0 THEN ""
    ELSE s["messages"][Len(s["messages"])].content[1]

_latest_user_text(s) == LatestHuman(s["messages"], Len(s["messages"]))

----------------------------------------------------------------------------
Init ==
    /\ state = [messages |-> <<>>]
    /\ pc = "idle"
    /\ outcome = "none"
    /\ nodes_run = <<>>
    /\ calls = <<>>
    /\ analysis = NoAnalysis
    /\ turn_start = [messages |-> <<>>]
    /\ turns = 0
    /\ routed = {}

(* A node raised: the run stops where it is.  Nothing undoes the writes    *)
(* the graph has already merged into the state.                            *)
Raise ==
    /\ pc' = "idle"
    /\ outcome' = "failed"
    /\ UNCHANGED <<state, turn_start, turns, routed>>

(* StartTurn with the entry point set to the first worker. *)
StartTurn_at_intent ==
    /\ pc = "idle"
    /\ turns < MaxTurns
    /\ \E u \in UserInputs :
          state' = Merge(state, [messages |-> <<HumanMessage(u)>>])
    /\ turn_start' = state
    /\ pc' = "invoke_intent"
    /\ outcome' = "running"
    /\ nodes_run' = <<>>
    /\ calls' = <<>>
    /\ analysis' = NoAnalysis
    /\ turns' = turns + 1
    /\ UNCHANGED routed

(* A turn: the incoming user message enters the messages channel and the   *)
(* graph starts at its entry point.                                        *)
StartTurn ==
    /\ pc = "idle"
    /\ turns < MaxTurns
    /\ \E u \in UserInputs :
          state' = Merge(state, [messages |-> <<HumanMessage(u)>>])
    /\ turn_start' = state
    /\ pc' = "supervisor_agent"
    /\ outcome' = "running"
    /\ nodes_run' = <<>>
    /\ calls' = <<>>
    /\ analysis' = NoAnalysis
    /\ turns' = turns + 1
    /\ UNCHANGED routed

(* The supervisor node: formats the prompt, asks router_llm, returns       *)
(* {"next_node_to_invoke": decision.next_node}.                            *)
supervisor_agent ==
    /\ pc = "supervisor_agent"
    /\ nodes_run' = Append(nodes_run, "supervisor_agent")
    /\ LET user_input == _latest_user_text(state)
           current_node == Get(state, "current_node", "")
           node_decision == Get(state, "node_decision", "")
           prompt == [user_input |-> user_input, current_node |-> current_node,
                      node_decision |-> node_decision]
       IN  /\ calls' = Append(calls, [llm |-> "router_llm", prompt |-> prompt])
           /\ \/ \E decision \in router_llm(prompt) :
                    /\ analysis' = decision
                    /\ state' = Merge(state, [next_node_to_invoke |-> decision.next_node])
                    /\ routed' = routed \cup
                                   {<<current_node, node_decision, decision.next_node>>}
                    /\ pc' = "route_logic"
                    /\ UNCHANGED <<outcome, turn_start, turns>>
              \/ /\ Raise
                 /\ UNCHANGED analysis

(* route_logic with "END" mapped to the first worker instead of END. *)
route_logic_end_to_intent ==
    /\ pc = "route_logic"
    /\ LET next == state["next_node_to_invoke"]
       IN  pc' = IF next = END THEN "invoke_intent" ELSE next
    /\ UNCHANGED <<state, outcome, nodes_run, calls, analysis, turn_start, turns, routed>>

(* The conditional edge out of the supervisor: the mapped node, or END.    *)
route_logic ==
    /\ pc = "route_logic"
    /\ LET next == state["next_node_to_invoke"]
       IN  IF next = END
           THEN /\ pc' = "idle"
                /\ outcome' = "ok"
           ELSE /\ pc' = next
                /\ UNCHANGED outcome
    /\ UNCHANGED <<state, nodes_run, calls, analysis, turn_start, turns, routed>>

(* invoke_intent_return without the prev_question entry. *)
invoke_intent_return_no_prompt(a) ==
    [collected_information |-> a.collected_information,
     current_node |-> a.current_node,
     node_decision |-> a.node_decision,
     messages |-> <<AIMessage(<<"**Collected Information:**", a.collected_information>>)>>]

(* The dict invoke_intent returns for the oracle answer a. *)
invoke_intent_return(a) ==
    LET display_summary == <<"**Collected Information:**", a.collected_information>>
        response_content ==
            IF a.node_decision = "incomplete"
            THEN <<a.next_question_to_ask>> \o display_summary
            ELSE <<"Great, I have all the required details.">>
                 \o display_summary
                 \o <<"I will now proceed with drafting the job description.">>
    IN  [collected_information |-> a.collected_information,
         current_node |-> a.current_node,
         node_decision |-> a.node_decision,
         prev_question |-> a.next_question_to_ask,
         messages |-> <<AIMessage(response_content)>>]

(* Intent Agent: collects the requirements for the job description. *)
invoke_intent ==
    /\ pc = "invoke_intent"
    /\ nodes_run' = Append(nodes_run, "invoke_intent")
    /\ LET prev_question == Get(state, "prev_question", "")
           collected_information == Get(state, "collected_information", "")
           user_input == _latest_user_text(state)
           prompt == [prev_question |-> prev_question,
                      collected_information |-> collected_information,
                      user_input |-> user_input]
       IN  /\ calls' = Append(calls, [llm |-> "intent_analyzer_llm", prompt |-> prompt])
           /\ \/ \E a \in intent_analyzer_llm(prompt) :
                    /\ analysis' = a
                    /\ state' = Merge(state, invoke_intent_return(a))
                    /\ pc' = "idle"
                    /\ outcome' = "ok"
                    /\ UNCHANGED <<turn_start, turns, routed>>
              \/ /\ Raise
                 /\ UNCHANGED analysis

(* invoke_jd asking jd_llm a second time before it uses the answer. *)
invoke_jd_retry ==
    /\ pc = "invoke_jd"
    /\ nodes_run' = Append(nodes_run, "invoke_jd")
    /\ LET prompt == [collected_information |-> Get(state, "collected_information", Null),
                      user_input |-> _latest_user_text(state),
                      previous_job_description |-> Get(state, "job_description", "")]
           call == [llm |-> "jd_llm", prompt |-> prompt]
       IN  /\ calls' = calls \o <<call, call>>
           /\ \E a \in jd_llm(prompt) :
                 /\ analysis' = a
                 /\ state' = Merge(state,
                       [job_description |-> a.job_description,
                        messages |-> <<AIMessage(<<"**Job Description Draft:**",
                                                  a.job_description>>)>>,
                        current_node |-> "invoke_jd",
                        node_decision |-> a.node_decision])
                 /\ pc' = "idle"
                 /\ outcome' = "ok"
                 /\ UNCHANGED <<turn_start, turns, routed>>

(* The prompt invoke_jd formats for jd_llm from the state s. *)
jd_prompt(s) ==
    [collected_information |-> Get(s, "collected_information", Null),
     user_input |-> _latest_user_text(s),
     previous_job_description |-> Get(s, "job_description", "")]

(* invoke_jd_return without the node_decision entry. *)
invoke_jd_return_no_decision(a) ==
    [job_description |-> a.job_description,
     messages |-> <<AIMessage(<<"**Job Description Draft:**", a.job_description>>)>>,
     current_node |-> "invoke_jd"]

(* invoke_jd_return that also clears the screening questions. *)
invoke_jd_return_resets_questions(a) ==
    [job_description |-> a.job_description,
     messages |-> <<AIMessage(<<"**Job Description Draft:**", a.job_description>>)>>,
     current_node |-> "invoke_jd",
     node_decision |-> a.node_decision,
     questions |-> <<>>]

(* The dict invoke_jd returns for the oracle answer a. *)
invoke_jd_return(a) ==
    LET jd_display == <<"**Job Description Draft:**", a.job_description>>
        message_text ==
            IF a.node_decision = "incomplete"
            THEN jd_display \o <<a.next_question_to_ask>>
            ELSE jd_display \o <<"Great! The job description is approved.">>
    IN  [job_description |-> a.job_description,
         messages |-> <<AIMessage(message_text)>>,
         current_node |-> "invoke_jd",
         node_decision |-> a.node_decision]

(* JD Agent: generates or refines the job description. *)
invoke_jd ==
    /\ pc = "invoke_jd"
    /\ nodes_run' = Append(nodes_run, "invoke_jd")
    /\ LET prompt == jd_prompt(state)
       IN  /\ calls' = Append(calls, [llm |-> "jd_llm", prompt |-> prompt])
           /\ \/ \E a \in jd_llm(prompt) :
                    /\ analysis' = a
                    /\ state' = Merge(state, invoke_jd_return(a))
                    /\ pc' = "idle"
                    /\ outcome' = "ok"
                    /\ UNCHANGED <<turn_start, turns, routed>>
              \/ /\ Raise
                 /\ UNCHANGED analysis

(* "\n".join(f"{ref_no+1} {question}" ...) *)
display_questions(questions) ==
    [i \in 1..Len(questions) |-> ToString(i) \o " " \o questions[i]]

(* Question Agent: generates the screening questions and refines them. *)
invoke_questions ==
    /\ pc = "invoke_questions"
    /\ nodes_run' = Append(nodes_run, "invoke_questions")
    /\ IF "job_description" \notin DOMAIN state
       THEN \* state["job_description"] raises KeyError before the oracle is asked
            /\ Raise
            /\ UNCHANGED <<calls, analysis>>
       ELSE
         LET previous_questions == Get(state, "questions", <<>>)
             user_input == _latest_user_text(state)
             prompt == [job_description |-> state["job_description"],
                        user_input |-> user_input,
                        previous_questions |-> previous_questions]
         IN  /\ calls' = Append(calls, [llm |-> "question_llm", prompt |-> prompt])
             /\ \/ \E a \in question_llm(prompt) :
                      /\ analysis' = a
                      /\ IF a.node_decision # "complete" /\ a.next_question_to_ask = Null
                         THEN \* None.lower() raises AttributeError
                              Raise
                         ELSE
                           LET follow_up_question ==
                                   IF "please share the information"
                                          \in LowerPhrases(a.next_question_to_ask)
                                   THEN "Understood. Can you please share the information to be updated?"
                                   ELSE IF "further changes"
                                          \in LowerPhrases(a.next_question_to_ask)
                                   THEN "I've updated the questions. Do you want to make any further changes? (Yes/No)"
                                   ELSE "Do these look good, or would you like me to refine them? (Yes/No)"
                               response_content ==
                                   IF a.node_decision = "complete"
                                   THEN <<"Great! The screening questions are approved.",
                                          "**Finalized Job Description:**",
                                          state["job_description"],
                                          "**Finalized Questions:**">>
                                        \o display_questions(a.questions)
                                        \o <<"This concludes our session.">>
                                   ELSE <<"Here are the current screening questions:">>
                                        \o display_questions(a.questions)
                                        \o <<follow_up_question>>
                           IN  /\ state' = Merge(state,
                                     [questions |-> a.questions,
                                      current_node |-> a.current_node,
                                      node_decision |-> a.node_decision,
                                      messages |-> <<AIMessage(response_content)>>])
                               /\ pc' = "idle"
                               /\ outcome' = "ok"
                               /\ UNCHANGED <<turn_start, turns, routed>>
                \/ /\ Raise
                   /\ UNCHANGED analysis

Next ==
    \/ StartTurn
    \/ supervisor_agent
    \/ route_logic
    \/ invoke_intent
    \/ invoke_jd
    \/ invoke_questions

Spec == Init /\ [][Next]_vars

(* A state record handed to the graph from outside (restored by the        *)
(* checkpointer the service adds, or given as input): the routing fields   *)
(* hold whatever the record holds.                                         *)
LoadedNodes == HandlerNodes \cup {"invoke_offer"}

LoadedDecisions == Decisions \cup {"", "pending"}

InitLoaded ==
    /\ state \in {[messages |-> <<>>, current_node |-> c, node_decision |-> d] :
                     c \in LoadedNodes, d \in LoadedDecisions}
    /\ pc = "idle"
    /\ outcome = "none"
    /\ nodes_run = <<>>
    /\ calls = <<>>
    /\ analysis = NoAnalysis
    /\ turn_start = state
    /\ turns = 0
    /\ routed = {}

SpecLoaded == InitLoaded /\ [][Next]_vars

----------------------------------------------------------------------------
(* Vocabulary of the properties *)

CurrentNode(s) == Get(s, "current_node", "")

NodeDecision(s) == Get(s, "node_decision", "")

NextNode(s) == Get(s, "next_node_to_invoke", "")

(* A turn has run to its end (successfully or not). *)
TurnOver == pc = "idle" /\ turns > 0

TurnOk == TurnOver /\ outcome = "ok"

TurnFailed == TurnOver /\ outcome = "failed"

(* The workflow sequence invoke_intent -> invoke_jd -> invoke_questions -> END. *)
Successor(node) ==
    IF node = "invoke_intent" THEN "invoke_jd"
    ELSE IF node = "invoke_jd" THEN "invoke_questions"
    ELSE END

(* The declared domain of the routing table and the table itself. *)
InDomain(current_node, node_decision) ==
    \/ current_node = ""
    \/ current_node \in HandlerNodes /\ node_decision \in Decisions

RouteTable(current_node, node_decision) ==
    IF current_node = "" THEN "invoke_intent"
    ELSE IF node_decision = "incomplete" THEN current_node
    ELSE Successor(current_node)

(* Position of a phase in intake -> specification -> assessment -> done. *)
PhaseRank(node) ==
    IF node = "" THEN 0
    ELSE IF node = "invoke_intent" THEN 1
    ELSE IF node = "invoke_jd" THEN 2
    ELSE IF node = "invoke_questions" THEN 3
    ELSE 4

(* The messages a turn has added after the incoming user message. *)
Replies == SubSeq(state["messages"], Len(turn_start["messages"]) + 2,
                  Len(state["messages"]))

(* Every field other than the history is as it was when the turn began. *)
FieldsUntouched(except) ==
    /\ (DOMAIN state) \ except = (DOMAIN turn_start) \ except
    /\ \A k \in (DOMAIN state) \ (except \cup {"messages"}) : state[k] = turn_start[k]

(* The history is what it was plus the incoming user message. *)
OnlyUserMessageAdded ==
    /\ Len(state["messages"]) = Len(turn_start["messages"]) + 1
    /\ SubSeq(state["messages"], 1, Len(turn_start["messages"])) = turn_start["messages"]
    /\ state["messages"][Len(state["messages"])].type = "human"

Llms == [i \in 1..Len(calls) |-> calls[i].llm]

HandlerLlm(node) ==
    IF node = "invoke_intent" THEN "intent_analyzer_llm"
    ELSE IF node = "invoke_jd" THEN "jd_llm"
    ELSE "question_llm"

----------------------------------------------------------------------------
(* C1: every routing decision the supervisor step takes on an in-domain    *)
(* (current_node, node_decision) pair is the one the routing table gives:  *)
(* empty current_node -> invoke_intent, incomplete -> current_node,        *)
(* complete -> the successor of current_node.                              *)
C1_RoutingFollowsTable ==
    \A r \in routed : InDomain(r[1], r[2]) => r[3] = RouteTable(r[1], r[2])

(* C2: routing is deterministic: two router steps started with the same    *)
(* (current_node, node_decision) select the same next node, whatever the   *)
(* user message and the rest of the state.                                 *)
C2_RoutingDeterministic ==
    \A r1, r2 \in routed : (r1[1] = r2[1] /\ r1[2] = r2[2]) => r1[3] = r2[3]

(* C3: the phase recorded in current_node never regresses: after a turn it *)
(* is the phase the turn began in or a later one.                          *)
C3_MonotonicPhase ==
    TurnOver => PhaseRank(CurrentNode(state)) >= PhaseRank(CurrentNode(turn_start))

(* C4: once the conversation has terminated (the router has yielded END),  *)
(* a further turn leaves every state field unchanged (the history apart    *)
(* from the incoming user message) and adds no new agent message.          *)
C4_IdempotentTermination ==
    (TurnOver /\ NextNode(turn_start) = END) =>
        /\ FieldsUntouched({})
        /\ OnlyUserMessageAdded

C6_TenItems ==
    (CurrentNode(state) = "invoke_questions" /\ NodeDecision(state) = "complete")
        => Len(Get(state, "questions", <<>>)) = TenItems

(* C7: an Assessment oracle result that does not hold exactly ten items is *)
(* rejected before merge: the turn fails and the stored questions are the  *)
(* ones stored before the turn.                                            *)
C7_NonTenRejected ==
    (/\ TurnOver
     /\ "questions" \in DOMAIN analysis
     /\ Len(analysis.questions) # TenItems)
        => /\ outcome = "failed"
           /\ Get(state, "questions", <<>>) = Get(turn_start, "questions", <<>>)

(* C8: a turn whose phase handler fails changes nothing: no agent message  *)
(* is appended and every field, the routing field written by the           *)
(* supervisor step included, is as it was before the turn.                 *)
C8_FailedTurnAtomic ==
    (TurnFailed /\ Len(nodes_run) = 2) =>
        /\ FieldsUntouched({})
        /\ Replies = <<>>

(* C9: a routing input outside the declared domain makes the turn fail: it *)
(* never gets past the supervisor step to a route.                         *)
C9_OutOfDomainFails ==
    (/\ turns > 0
     /\ pc # "supervisor_agent"
     /\ ~InDomain(CurrentNode(turn_start), NodeDecision(turn_start)))
        => outcome = "failed"

----------------------------------------------------------------------------
(* The agent messages of a history, and whether a handler has reported     *)
(* complete in it (each handler announces its approval in its message).    *)
AgentMessages(s) == SelectSeq(s["messages"], LAMBDA m : m.type = "ai")

ApprovalNotice(node) ==
    IF node = "invoke_intent" THEN "Great, I have all the required details."
    ELSE IF node = "invoke_jd" THEN "Great! The job description is approved."
    ELSE "Great! The screening questions are approved."

ReportedComplete(s, node) ==
    \E i \in 1..Len(s["messages"]) :
        \E j \in 1..Len(s["messages"][i].content) :
            /\ s["messages"][i].type = "ai"
            /\ s["messages"][i].content[j] = ApprovalNotice(node)

(* The handler that ran in the current turn, "" when none has. *)
HandlerRun == IF Len(nodes_run) >= 2 THEN nodes_run[2] ELSE ""

(* C11: in every turn the router step runs first and exactly once, at most *)
(* one phase handler runs after it, and the turn ends there: no handler is *)
(* followed by another handler or by the router.                           *)
C11_RouterThenOneHandler ==
    /\ Len(nodes_run) <= 2
    /\ Len(nodes_run) >= 1 => nodes_run[1] = "supervisor_agent"
    /\ Len(nodes_run) = 2 => (nodes_run[2] \in HandlerNodes /\ pc = "idle")
    /\ pc \in HandlerNodes \cup {"route_logic"} => nodes_run = <<"supervisor_agent">>
    /\ pc = "supervisor_agent" => nodes_run = <<>>

C11_Witness ==
    /\ TurnOk
    /\ turns = 2
    /\ nodes_run = <<"supervisor_agent", "invoke_questions">>

(* C12: invoke_jd never runs before the Intake handler has reported        *)
(* complete, invoke_questions never runs before the Specification handler  *)
(* has reported complete (so job_description is present when it reads it), *)
(* and END is never selected before the Assessment handler has reported    *)
(* complete.                                                               *)
C12_PhaseOrdering ==
    /\ pc = "invoke_jd" => ReportedComplete(state, "invoke_intent")
    /\ pc = "invoke_questions" =>
          /\ ReportedComplete(state, "invoke_jd")
          /\ "job_description" \in DOMAIN state
    /\ (pc = "route_logic" /\ NextNode(state) = END) =>
          ReportedComplete(state, "invoke_questions")

(* C13: when the Specification handler runs with a non-empty               *)
(* job_description and reports complete, the stored job_description is the *)
(* one stored before the turn.                                             *)
C13_ApprovalKeepsArtifact ==
    (/\ TurnOk
     /\ HandlerRun = "invoke_jd"
     /\ Get(turn_start, "job_description", "") # ""
     /\ NodeDecision(state) = "complete")
        => state["job_description"] = turn_start["job_description"]

(* The state s with its latest user message replaced by u. *)
WithUserInput(s, u) ==
    [s EXCEPT !["messages"] =
        Append(SubSeq(s["messages"], 1, Len(s["messages"]) - 1), HumanMessage(u))]

(* C14: when the Specification handler runs with an empty job_description, *)
(* runs that differ only in the latest user message give the oracle the    *)
(* same input and produce the same job_description, with node_decision =   *)
(* incomplete.                                                             *)
C14_InitialDraftIgnoresUser ==
    (pc = "invoke_jd" /\ Get(state, "job_description", "") = "") =>
        /\ \A u \in UserInputs : jd_prompt(WithUserInput(state, u)) = jd_prompt(state)
        /\ \A a1, a2 \in jd_llm(jd_prompt(state)) :
              a1.job_description = a2.job_description
        /\ \A a \in jd_llm(jd_prompt(state)) : a.node_decision = "incomplete"

(* The attributes a collected_information summary holds, with their values *)
(* (a refused attribute is held with the value "Not Provided").            *)
Mandatory == {"company_name", "role", "skills", "experience", "mode_of_work", "location"}

Attributes(info) ==
    IF info = "role: backend" THEN [role |-> "backend"]
    ELSE IF info = "role: backend; location: Berlin"
    THEN [role |-> "backend", location |-> "Berlin"]
    ELSE IF info = CollectedFull
    THEN [company_name |-> "Acme", role |-> "backend", skills |-> "Python",
          experience |-> "3 years", mode_of_work |-> "remote", location |-> "Berlin"]
    ELSE <<>>

(* Whether the user message u explicitly asks to change attribute attr. *)
UpdateInstruction(u, attr) == u = "add Python" /\ attr = "skills"

(* C15: the Intake handler never stores node_decision = complete while a   *)
(* mandatory attribute is neither filled nor marked refused in             *)
(* collected_information.                                                  *)
C15_MandatoryComplete ==
    (CurrentNode(state) = "invoke_intent" /\ NodeDecision(state) = "complete")
        => Mandatory \subseteq DOMAIN Attributes(Get(state, "collected_information", ""))

(* C16: over Intake turns a filled (non-refused) attribute keeps its value *)
(* and is not dropped, unless the turn's user message explicitly asks to   *)
(* update it.                                                              *)
C16_NoSilentOverwrite ==
    (TurnOk /\ HandlerRun = "invoke_intent") =>
        LET old == Attributes(Get(turn_start, "collected_information", ""))
            new == Attributes(Get(state, "collected_information", ""))
        IN  \A attr \in DOMAIN old :
                \/ old[attr] = "Not Provided"
                \/ UpdateInstruction(_latest_user_text(state), attr)
                \/ attr \in DOMAIN new /\ new[attr] = old[attr]

(* Whether key k holds in s what it held in t (absent in both counts). *)
SameField(s, t, k) ==
    /\ (k \in DOMAIN s) = (k \in DOMAIN t)
    /\ k \in DOMAIN s => s[k] = t[k]

IsPrefix(p, q) == Len(p) <= Len(q) /\ SubSeq(q, 1, Len(p)) = p

(* C18: history is append-only: no step changes, removes or reorders the   *)
(* messages already there, and a handler that completes its turn appends   *)
(* exactly one agent message, right after the incoming user message.       *)
C18_HistoryAppendOnly ==
    [][/\ IsPrefix(state["messages"], state["messages"]')
       /\ (pc \in HandlerNodes /\ outcome' = "ok") =>
             /\ Len(state["messages"]') = Len(state["messages"]) + 1
             /\ state["messages"]'[Len(state["messages"]')].type = "ai"
             /\ state["messages"][Len(state["messages"])].type = "human"]_vars

C18_Witness ==
    /\ TurnOk
    /\ HandlerRun \in HandlerNodes
    /\ Len(state["messages"]) = 4
    /\ Len(AgentMessages(state)) = 2

(* C19 as stated: once a phase handler has run, node_decision is one of    *)
(* incomplete, complete and current_node names the handler that ran most   *)
(* recently; before the first handler runs both are unset.                 *)
C19_LastRunHandlerRecorded ==
    /\ (TurnOver /\ HandlerRun \in HandlerNodes) =>
          /\ NodeDecision(state) \in Decisions
          /\ CurrentNode(state) = HandlerRun
    /\ turns = 0 => {"current_node", "node_decision"} \cap DOMAIN state = {}

(* C19 amended: once a phase handler has completed a turn, node_decision   *)
(* is one of incomplete, complete and current_node names the handler that  *)
(* completed most recently; a handler run that raises, like a terminating  *)
(* turn, leaves both as they were, and before the first handler completes  *)
(* both are unset.                                                         *)
C19_LastCompletedHandlerRecorded ==
    /\ (TurnOk /\ HandlerRun \in HandlerNodes) =>
          /\ NodeDecision(state) \in Decisions
          /\ CurrentNode(state) = HandlerRun
    /\ (TurnOver /\ ~(TurnOk /\ HandlerRun \in HandlerNodes)) =>
          /\ SameField(state, turn_start, "current_node")
          /\ SameField(state, turn_start, "node_decision")
    /\ Len(AgentMessages(state)) = 0 =>
          {"current_node", "node_decision"} \cap DOMAIN state = {}
    /\ Len(AgentMessages(state)) > 0 =>
          (NodeDecision(state) \in Decisions /\ CurrentNode(state) \in HandlerNodes)

C19_Witness ==
    /\ TurnFailed
    /\ HandlerRun = "invoke_jd"
    /\ CurrentNode(state) = "invoke_intent"
    /\ NodeDecision(state) = "complete"

(* C20: for every oracle answer that conforms to the Assessment schema,    *)
(* one with node_decision = incomplete and next_question_to_ask = null     *)
(* included, the Assessment handler completes the turn: it stores the      *)
(* questions, current_node and node_decision and appends one agent message.*)
C20_ConformingAnswerCompletes ==
    (/\ TurnOver
     /\ HandlerRun = "invoke_questions"
     /\ analysis \in QuestionsAnalysis
     /\ Len(analysis.questions) = TenItems)
        => /\ outcome = "ok"
           /\ Get(state, "questions", <<>>) = analysis.questions
           /\ CurrentNode(state) = analysis.current_node
           /\ NodeDecision(state) = analysis.node_decision
           /\ Len(Replies) = 1

(* C21: the router step writes only next_node_to_invoke; the Intake        *)
(* handler never changes job_description or questions; the Specification   *)
(* handler never changes collected_information, questions or               *)
(* prev_question; the Assessment handler never changes                     *)
(* collected_information, job_description or prev_question.                *)
C21_Frames ==
    [][/\ pc = "supervisor_agent" =>
             \A k \in SupervisorState \ {"next_node_to_invoke"} :
                 SameField(state', state, k)
       /\ pc = "invoke_intent" =>
             \A k \in {"job_description", "questions"} : SameField(state', state, k)
       /\ pc = "invoke_jd" =>
             \A k \in {"collected_information", "questions", "prev_question"} :
                 SameField(state', state, k)
       /\ pc = "invoke_questions" =>
             \A k \in {"collected_information", "job_description", "prev_question"} :
                 SameField(state', state, k)]_vars

C21_Witness ==
    /\ TurnOk
    /\ HandlerRun = "invoke_jd"
    /\ {"collected_information", "prev_question"} \subseteq DOMAIN state
    /\ state["job_description"] \in JobDescriptions

HumanMessages(s) == SelectSeq(s["messages"], LAMBDA m : m.type = "human")

LastUserText(s) ==
    IF Len(HumanMessages(s)) = 0 THEN ""
    ELSE HumanMessages(s)[Len(HumanMessages(s))].content[1]

(* C23: the latest-user-message accessor returns the content of the last   *)
(* user-tagged message in history, skipping any later agent messages,      *)
(* returns the empty string when history holds no user message, and the    *)
(* step that calls it first leaves history as it found it.                 *)
C23_LatestUserText ==
    /\ _latest_user_text(state) = LastUserText(state)
    /\ Len(HumanMessages(state)) = 0 => _latest_user_text(state) = ""
    /\ pc = "route_logic" => OnlyUserMessageAdded

C23_Witness ==
    /\ pc = "idle"
    /\ Len(state["messages"]) = 4
    /\ state["messages"][4].type = "ai"
    /\ state["messages"][1].content = <<"no">>
    /\ state["messages"][3].content = <<"add Python">>
    /\ _latest_user_text(state) = "add Python"

====
